---- MODULE Spec2Model ----
(***************************************************************************)
(* Model of bin/google_calendar_ooo_report.py: one run of main().          *)
(*                                                                         *)
(* The run is a straight line: load the cached credential, refresh it or   *)
(* run the interactive flow when it is missing or invalid, save it, query  *)
(* each configured calendar in turn, keep the out-of-office events, print  *)
(* the report.  The Google client libraries, the files and the calendar    *)
(* service are the environment: what they return or raise is chosen        *)
(* nondeterministically.  main() catches HttpError only; every other       *)
(* exception leaves main(), and the interpreter prints the traceback and   *)
(* exits with status 1.                                                    *)
(*                                                                         *)
(* Strings whose characters the program inspects (event summaries and      *)
(* keywords) are sequences of Unicode code points, so that lower() and     *)
(* the substring test `in` are computed and not assumed.  An event is a    *)
(* record that may lack the key "summary" or "eventType", as a dict may.   *)
(***************************************************************************)
EXTENDS Integers, Sequences, FiniteSets, TLC

VARIABLES
  tokenFile,     \* store/token.json: <<>> when absent, <<content>> when present
  creds,         \* the local `creds` of main(): None or a credential
  pc,            \* position of the run inside main()
  refreshCalls,  \* number of creds.refresh(...) calls made
  flowCalls,     \* number of flow.run_local_server(...) calls made
  tokenWrites,   \* number of times store/token.json was opened for writing
                 \* (open(..., "w") returned: the old content is gone)
  authError,     \* exception raised in lines 31-36 ("" when none)
  uncaught,      \* the exception that left main() ("" when none)
  calendar_id,   \* settings.yml: settings.calendar_id
  keywords,      \* settings.yml: settings.keywords
  returned,      \* history: one entry per events().list(...).execute() call
  ooo_events,    \* the dict `ooo_events` of main()
  error,         \* the HttpError bound by `except HttpError as error`
  stdout,        \* lines printed to standard output
  stderr,        \* what the interpreter printed to standard error
  exitStatus,    \* process exit status, Running while the process lives
  tokenFile0,    \* history: the token file as it was when the run started
  fEvents,       \* filter alone: the event list given to the filter
  fOnce,         \* filter alone: the outcome of the filter applied once
  fTwice         \* filter alone: the outcome of the filter on its own output

vars == <<tokenFile, creds, pc, refreshCalls, flowCalls, tokenWrites, authError,
          uncaught, calendar_id, keywords, returned, ooo_events, error, stdout,
          stderr, exitStatus, tokenFile0, fEvents, fOnce, fTwice>>

authVars == <<tokenFile, creds, refreshCalls, flowCalls, tokenWrites, authError>>
fetchVars == <<returned, ooo_events, error>>
settingsVars == <<calendar_id, keywords>>
outVars == <<stdout, stderr, exitStatus>>
filterVars == <<fEvents, fOnce, fTwice>>

----------------------------------------------------------------------------
(* Bounds of the model *)

MaxCalendars == 2
MaxReturned == 3
MaxKeywords == 2
MaxFilterLen == 3

----------------------------------------------------------------------------
(* Python values *)

None == [isNone |-> TRUE]

\* exitStatus while the process has not exited; exit statuses are 0 and 1.
Running == -1

\* The outcome of evaluating an expression: the exception it raised ("" when
\* it raised none) and, when it raised none, its value.
Result(raised, value) == [raised |-> raised, value |-> value]

\* All sequences over S of length at most n.
SeqsUpTo(S, n) == UNION {[1..k -> S] : k \in 0..n}

----------------------------------------------------------------------------
(* Strings as sequences of Unicode code points *)

\* str.lower() of CPython 3.11 (Unicode 14.0.0).  The lowercase of a
\* character differs from the character for the code points of LowerRanges:
\* <<first, last, step, delta>> stands for the code points first, first +
\* step, ..., last, whose lowercase is the code point plus delta.
LowerRanges ==
  {<<65, 90, 1, 32>>, <<192, 214, 1, 32>>, <<216, 222, 1, 32>>,
   <<256, 302, 2, 1>>, <<306, 310, 2, 1>>, <<313, 327, 2, 1>>,
   <<330, 374, 2, 1>>, <<376, 376, 1, -121>>, <<377, 381, 2, 1>>,
   <<385, 385, 1, 210>>, <<386, 388, 2, 1>>, <<390, 390, 1, 206>>,
   <<391, 391, 1, 1>>, <<393, 394, 1, 205>>, <<395, 395, 1, 1>>,
   <<398, 398, 1, 79>>, <<399, 399, 1, 202>>, <<400, 400, 1, 203>>,
   <<401, 401, 1, 1>>, <<403, 403, 1, 205>>, <<404, 404, 1, 207>>,
   <<406, 406, 1, 211>>, <<407, 407, 1, 209>>, <<408, 408, 1, 1>>,
   <<412, 412, 1, 211>>, <<413, 413, 1, 213>>, <<415, 415, 1, 214>>,
   <<416, 420, 2, 1>>, <<422, 422, 1, 218>>, <<423, 423, 1, 1>>,
   <<425, 425, 1, 218>>, <<428, 428, 1, 1>>, <<430, 430, 1, 218>>,
   <<431, 431, 1, 1>>, <<433, 434, 1, 217>>, <<435, 437, 2, 1>>,
   <<439, 439, 1, 219>>, <<440, 440, 1, 1>>, <<444, 444, 1, 1>>,
   <<452, 452, 1, 2>>, <<453, 453, 1, 1>>, <<455, 455, 1, 2>>,
   <<456, 456, 1, 1>>, <<458, 458, 1, 2>>, <<459, 475, 2, 1>>,
   <<478, 494, 2, 1>>, <<497, 497, 1, 2>>, <<498, 500, 2, 1>>,
   <<502, 502, 1, -97>>, <<503, 503, 1, -56>>, <<504, 542, 2, 1>>,
   <<544, 544, 1, -130>>, <<546, 562, 2, 1>>, <<570, 570, 1, 10795>>,
   <<571, 571, 1, 1>>, <<573, 573, 1, -163>>, <<574, 574, 1, 10792>>,
   <<577, 577, 1, 1>>, <<579, 579, 1, -195>>, <<580, 580, 1, 69>>,
   <<581, 581, 1, 71>>, <<582, 590, 2, 1>>, <<880, 882, 2, 1>>,
   <<886, 886, 1, 1>>, <<895, 895, 1, 116>>, <<902, 902, 1, 38>>,
   <<904, 906, 1, 37>>, <<908, 908, 1, 64>>, <<910, 911, 1, 63>>,
   <<913, 929, 1, 32>>, <<931, 939, 1, 32>>, <<975, 975, 1, 8>>,
   <<984, 1006, 2, 1>>, <<1012, 1012, 1, -60>>, <<1015, 1015, 1, 1>>,
   <<1017, 1017, 1, -7>>, <<1018, 1018, 1, 1>>, <<1021, 1023, 1, -130>>,
   <<1024, 1039, 1, 80>>, <<1040, 1071, 1, 32>>, <<1120, 1152, 2, 1>>,
   <<1162, 1214, 2, 1>>, <<1216, 1216, 1, 15>>, <<1217, 1229, 2, 1>>,
   <<1232, 1326, 2, 1>>, <<1329, 1366, 1, 48>>, <<4256, 4293, 1, 7264>>,
   <<4295, 4295, 1, 7264>>, <<4301, 4301, 1, 7264>>, <<5024, 5103, 1, 38864>>,
   <<5104, 5109, 1, 8>>, <<7312, 7354, 1, -3008>>, <<7357, 7359, 1, -3008>>,
   <<7680, 7828, 2, 1>>, <<7838, 7838, 1, -7615>>, <<7840, 7934, 2, 1>>,
   <<7944, 7951, 1, -8>>, <<7960, 7965, 1, -8>>, <<7976, 7983, 1, -8>>,
   <<7992, 7999, 1, -8>>, <<8008, 8013, 1, -8>>, <<8025, 8031, 2, -8>>,
   <<8040, 8047, 1, -8>>, <<8072, 8079, 1, -8>>, <<8088, 8095, 1, -8>>,
   <<8104, 8111, 1, -8>>, <<8120, 8121, 1, -8>>, <<8122, 8123, 1, -74>>,
   <<8124, 8124, 1, -9>>, <<8136, 8139, 1, -86>>, <<8140, 8140, 1, -9>>,
   <<8152, 8153, 1, -8>>, <<8154, 8155, 1, -100>>, <<8168, 8169, 1, -8>>,
   <<8170, 8171, 1, -112>>, <<8172, 8172, 1, -7>>, <<8184, 8185, 1, -128>>,
   <<8186, 8187, 1, -126>>, <<8188, 8188, 1, -9>>, <<8486, 8486, 1, -7517>>,
   <<8490, 8490, 1, -8383>>, <<8491, 8491, 1, -8262>>, <<8498, 8498, 1, 28>>,
   <<8544, 8559, 1, 16>>, <<8579, 8579, 1, 1>>, <<9398, 9423, 1, 26>>,
   <<11264, 11311, 1, 48>>, <<11360, 11360, 1, 1>>,
   <<11362, 11362, 1, -10743>>, <<11363, 11363, 1, -3814>>,
   <<11364, 11364, 1, -10727>>, <<11367, 11371, 2, 1>>,
   <<11373, 11373, 1, -10780>>, <<11374, 11374, 1, -10749>>,
   <<11375, 11375, 1, -10783>>, <<11376, 11376, 1, -10782>>,
   <<11378, 11378, 1, 1>>, <<11381, 11381, 1, 1>>,
   <<11390, 11391, 1, -10815>>, <<11392, 11490, 2, 1>>,
   <<11499, 11501, 2, 1>>, <<11506, 11506, 1, 1>>, <<42560, 42604, 2, 1>>,
   <<42624, 42650, 2, 1>>, <<42786, 42798, 2, 1>>, <<42802, 42862, 2, 1>>,
   <<42873, 42875, 2, 1>>, <<42877, 42877, 1, -35332>>,
   <<42878, 42886, 2, 1>>, <<42891, 42891, 1, 1>>,
   <<42893, 42893, 1, -42280>>, <<42896, 42898, 2, 1>>,
   <<42902, 42920, 2, 1>>, <<42922, 42922, 1, -42308>>,
   <<42923, 42923, 1, -42319>>, <<42924, 42924, 1, -42315>>,
   <<42925, 42925, 1, -42305>>, <<42926, 42926, 1, -42308>>,
   <<42928, 42928, 1, -42258>>, <<42929, 42929, 1, -42282>>,
   <<42930, 42930, 1, -42261>>, <<42931, 42931, 1, 928>>,
   <<42932, 42946, 2, 1>>, <<42948, 42948, 1, -48>>,
   <<42949, 42949, 1, -42307>>, <<42950, 42950, 1, -35384>>,
   <<42951, 42953, 2, 1>>, <<42960, 42960, 1, 1>>, <<42966, 42968, 2, 1>>,
   <<42997, 42997, 1, 1>>, <<65313, 65338, 1, 32>>, <<66560, 66599, 1, 40>>,
   <<66736, 66771, 1, 40>>, <<66928, 66938, 1, 39>>, <<66940, 66954, 1, 39>>,
   <<66956, 66962, 1, 39>>, <<66964, 66965, 1, 39>>, <<68736, 68786, 1, 64>>,
   <<71840, 71871, 1, 32>>, <<93760, 93791, 1, 32>>,
   <<125184, 125217, 1, 34>>}

\* The code points with the property Cased, as <<first, last>>.
CasedRanges ==
  {<<65, 90>>, <<97, 122>>, <<170, 170>>, <<181, 181>>, <<186, 186>>,
   <<192, 214>>, <<216, 246>>, <<248, 442>>, <<444, 447>>, <<452, 659>>,
   <<661, 696>>, <<704, 705>>, <<736, 740>>, <<837, 837>>, <<880, 883>>,
   <<886, 887>>, <<890, 893>>, <<895, 895>>, <<902, 902>>, <<904, 906>>,
   <<908, 908>>, <<910, 929>>, <<931, 1013>>, <<1015, 1153>>, <<1162, 1327>>,
   <<1329, 1366>>, <<1376, 1416>>, <<4256, 4293>>, <<4295, 4295>>,
   <<4301, 4301>>, <<4304, 4346>>, <<4349, 4351>>, <<5024, 5109>>,
   <<5112, 5117>>, <<7296, 7304>>, <<7312, 7354>>, <<7357, 7359>>,
   <<7424, 7615>>, <<7680, 7957>>, <<7960, 7965>>, <<7968, 8005>>,
   <<8008, 8013>>, <<8016, 8023>>, <<8025, 8025>>, <<8027, 8027>>,
   <<8029, 8029>>, <<8031, 8061>>, <<8064, 8116>>, <<8118, 8124>>,
   <<8126, 8126>>, <<8130, 8132>>, <<8134, 8140>>, <<8144, 8147>>,
   <<8150, 8155>>, <<8160, 8172>>, <<8178, 8180>>, <<8182, 8188>>,
   <<8305, 8305>>, <<8319, 8319>>, <<8336, 8348>>, <<8450, 8450>>,
   <<8455, 8455>>, <<8458, 8467>>, <<8469, 8469>>, <<8473, 8477>>,
   <<8484, 8484>>, <<8486, 8486>>, <<8488, 8488>>, <<8490, 8493>>,
   <<8495, 8500>>, <<8505, 8505>>, <<8508, 8511>>, <<8517, 8521>>,
   <<8526, 8526>>, <<8544, 8575>>, <<8579, 8580>>, <<9398, 9449>>,
   <<11264, 11492>>, <<11499, 11502>>, <<11506, 11507>>, <<11520, 11557>>,
   <<11559, 11559>>, <<11565, 11565>>, <<42560, 42605>>, <<42624, 42653>>,
   <<42786, 42887>>, <<42891, 42894>>, <<42896, 42954>>, <<42960, 42961>>,
   <<42963, 42963>>, <<42965, 42969>>, <<42997, 42998>>, <<43000, 43002>>,
   <<43824, 43866>>, <<43868, 43880>>, <<43888, 43967>>, <<64256, 64262>>,
   <<64275, 64279>>, <<65313, 65338>>, <<65345, 65370>>, <<66560, 66639>>,
   <<66736, 66771>>, <<66776, 66811>>, <<66928, 66938>>, <<66940, 66954>>,
   <<66956, 66962>>, <<66964, 66965>>, <<66967, 66977>>, <<66979, 66993>>,
   <<66995, 67001>>, <<67003, 67004>>, <<67456, 67456>>, <<67459, 67461>>,
   <<67463, 67504>>, <<67506, 67514>>, <<68736, 68786>>, <<68800, 68850>>,
   <<71840, 71903>>, <<93760, 93823>>, <<119808, 119892>>, <<119894, 119964>>,
   <<119966, 119967>>, <<119970, 119970>>, <<119973, 119974>>,
   <<119977, 119980>>, <<119982, 119993>>, <<119995, 119995>>,
   <<119997, 120003>>, <<120005, 120069>>, <<120071, 120074>>,
   <<120077, 120084>>, <<120086, 120092>>, <<120094, 120121>>,
   <<120123, 120126>>, <<120128, 120132>>, <<120134, 120134>>,
   <<120138, 120144>>, <<120146, 120485>>, <<120488, 120512>>,
   <<120514, 120538>>, <<120540, 120570>>, <<120572, 120596>>,
   <<120598, 120628>>, <<120630, 120654>>, <<120656, 120686>>,
   <<120688, 120712>>, <<120714, 120744>>, <<120746, 120770>>,
   <<120772, 120779>>, <<122624, 122633>>, <<122635, 122654>>,
   <<125184, 125251>>, <<127280, 127305>>, <<127312, 127337>>,
   <<127344, 127369>>}

\* The code points with the property Case_Ignorable, as <<first, last>>.
CaseIgnorableRanges ==
  {<<39, 39>>, <<46, 46>>, <<58, 58>>, <<94, 94>>, <<96, 96>>, <<168, 168>>,
   <<173, 173>>, <<175, 175>>, <<180, 180>>, <<183, 184>>, <<688, 879>>,
   <<884, 885>>, <<890, 890>>, <<900, 901>>, <<903, 903>>, <<1155, 1161>>,
   <<1369, 1369>>, <<1375, 1375>>, <<1425, 1469>>, <<1471, 1471>>,
   <<1473, 1474>>, <<1476, 1477>>, <<1479, 1479>>, <<1524, 1524>>,
   <<1536, 1541>>, <<1552, 1562>>, <<1564, 1564>>, <<1600, 1600>>,
   <<1611, 1631>>, <<1648, 1648>>, <<1750, 1757>>, <<1759, 1768>>,
   <<1770, 1773>>, <<1807, 1807>>, <<1809, 1809>>, <<1840, 1866>>,
   <<1958, 1968>>, <<2027, 2037>>, <<2042, 2042>>, <<2045, 2045>>,
   <<2070, 2093>>, <<2137, 2139>>, <<2184, 2184>>, <<2192, 2193>>,
   <<2200, 2207>>, <<2249, 2306>>, <<2362, 2362>>, <<2364, 2364>>,
   <<2369, 2376>>, <<2381, 2381>>, <<2385, 2391>>, <<2402, 2403>>,
   <<2417, 2417>>, <<2433, 2433>>, <<2492, 2492>>, <<2497, 2500>>,
   <<2509, 2509>>, <<2530, 2531>>, <<2558, 2558>>, <<2561, 2562>>,
   <<2620, 2620>>, <<2625, 2626>>, <<2631, 2632>>, <<2635, 2637>>,
   <<2641, 2641>>, <<2672, 2673>>, <<2677, 2677>>, <<2689, 2690>>,
   <<2748, 2748>>, <<2753, 2757>>, <<2759, 2760>>, <<2765, 2765>>,
   <<2786, 2787>>, <<2810, 2815>>, <<2817, 2817>>, <<2876, 2876>>,
   <<2879, 2879>>, <<2881, 2884>>, <<2893, 2893>>, <<2901, 2902>>,
   <<2914, 2915>>, <<2946, 2946>>, <<3008, 3008>>, <<3021, 3021>>,
   <<3072, 3072>>, <<3076, 3076>>, <<3132, 3132>>, <<3134, 3136>>,
   <<3142, 3144>>, <<3146, 3149>>, <<3157, 3158>>, <<3170, 3171>>,
   <<3201, 3201>>, <<3260, 3260>>, <<3263, 3263>>, <<3270, 3270>>,
   <<3276, 3277>>, <<3298, 3299>>, <<3328, 3329>>, <<3387, 3388>>,
   <<3393, 3396>>, <<3405, 3405>>, <<3426, 3427>>, <<3457, 3457>>,
   <<3530, 3530>>, <<3538, 3540>>, <<3542, 3542>>, <<3633, 3633>>,
   <<3636, 3642>>, <<3654, 3662>>, <<3761, 3761>>, <<3764, 3772>>,
   <<3782, 3782>>, <<3784, 3789>>, <<3864, 3865>>, <<3893, 3893>>,
   <<3895, 3895>>, <<3897, 3897>>, <<3953, 3966>>, <<3968, 3972>>,
   <<3974, 3975>>, <<3981, 3991>>, <<3993, 4028>>, <<4038, 4038>>,
   <<4141, 4144>>, <<4146, 4151>>, <<4153, 4154>>, <<4157, 4158>>,
   <<4184, 4185>>, <<4190, 4192>>, <<4209, 4212>>, <<4226, 4226>>,
   <<4229, 4230>>, <<4237, 4237>>, <<4253, 4253>>, <<4348, 4348>>,
   <<4957, 4959>>, <<5906, 5908>>, <<5938, 5939>>, <<5970, 5971>>,
   <<6002, 6003>>, <<6068, 6069>>, <<6071, 6077>>, <<6086, 6086>>,
   <<6089, 6099>>, <<6103, 6103>>, <<6109, 6109>>, <<6155, 6159>>,
   <<6211, 6211>>, <<6277, 6278>>, <<6313, 6313>>, <<6432, 6434>>,
   <<6439, 6440>>, <<6450, 6450>>, <<6457, 6459>>, <<6679, 6680>>,
   <<6683, 6683>>, <<6742, 6742>>, <<6744, 6750>>, <<6752, 6752>>,
   <<6754, 6754>>, <<6757, 6764>>, <<6771, 6780>>, <<6783, 6783>>,
   <<6823, 6823>>, <<6832, 6862>>, <<6912, 6915>>, <<6964, 6964>>,
   <<6966, 6970>>, <<6972, 6972>>, <<6978, 6978>>, <<7019, 7027>>,
   <<7040, 7041>>, <<7074, 7077>>, <<7080, 7081>>, <<7083, 7085>>,
   <<7142, 7142>>, <<7144, 7145>>, <<7149, 7149>>, <<7151, 7153>>,
   <<7212, 7219>>, <<7222, 7223>>, <<7288, 7293>>, <<7376, 7378>>,
   <<7380, 7392>>, <<7394, 7400>>, <<7405, 7405>>, <<7412, 7412>>,
   <<7416, 7417>>, <<7468, 7530>>, <<7544, 7544>>, <<7579, 7679>>,
   <<8125, 8125>>, <<8127, 8129>>, <<8141, 8143>>, <<8157, 8159>>,
   <<8173, 8175>>, <<8189, 8190>>, <<8203, 8207>>, <<8216, 8217>>,
   <<8228, 8228>>, <<8231, 8231>>, <<8234, 8238>>, <<8288, 8292>>,
   <<8294, 8303>>, <<8305, 8305>>, <<8319, 8319>>, <<8336, 8348>>,
   <<8400, 8432>>, <<11388, 11389>>, <<11503, 11505>>, <<11631, 11631>>,
   <<11647, 11647>>, <<11744, 11775>>, <<11823, 11823>>, <<12293, 12293>>,
   <<12330, 12333>>, <<12337, 12341>>, <<12347, 12347>>, <<12441, 12446>>,
   <<12540, 12542>>, <<40981, 40981>>, <<42232, 42237>>, <<42508, 42508>>,
   <<42607, 42610>>, <<42612, 42621>>, <<42623, 42623>>, <<42652, 42655>>,
   <<42736, 42737>>, <<42752, 42785>>, <<42864, 42864>>, <<42888, 42890>>,
   <<42994, 42996>>, <<43000, 43001>>, <<43010, 43010>>, <<43014, 43014>>,
   <<43019, 43019>>, <<43045, 43046>>, <<43052, 43052>>, <<43204, 43205>>,
   <<43232, 43249>>, <<43263, 43263>>, <<43302, 43309>>, <<43335, 43345>>,
   <<43392, 43394>>, <<43443, 43443>>, <<43446, 43449>>, <<43452, 43453>>,
   <<43471, 43471>>, <<43493, 43494>>, <<43561, 43566>>, <<43569, 43570>>,
   <<43573, 43574>>, <<43587, 43587>>, <<43596, 43596>>, <<43632, 43632>>,
   <<43644, 43644>>, <<43696, 43696>>, <<43698, 43700>>, <<43703, 43704>>,
   <<43710, 43711>>, <<43713, 43713>>, <<43741, 43741>>, <<43756, 43757>>,
   <<43763, 43764>>, <<43766, 43766>>, <<43867, 43871>>, <<43881, 43883>>,
   <<44005, 44005>>, <<44008, 44008>>, <<44013, 44013>>, <<64286, 64286>>,
   <<64434, 64450>>, <<65024, 65039>>, <<65043, 65043>>, <<65056, 65071>>,
   <<65106, 65106>>, <<65109, 65109>>, <<65279, 65279>>, <<65287, 65287>>,
   <<65294, 65294>>, <<65306, 65306>>, <<65342, 65342>>, <<65344, 65344>>,
   <<65392, 65392>>, <<65438, 65439>>, <<65507, 65507>>, <<65529, 65531>>,
   <<66045, 66045>>, <<66272, 66272>>, <<66422, 66426>>, <<67456, 67461>>,
   <<67463, 67504>>, <<67506, 67514>>, <<68097, 68099>>, <<68101, 68102>>,
   <<68108, 68111>>, <<68152, 68154>>, <<68159, 68159>>, <<68325, 68326>>,
   <<68900, 68903>>, <<69291, 69292>>, <<69446, 69456>>, <<69506, 69509>>,
   <<69633, 69633>>, <<69688, 69702>>, <<69744, 69744>>, <<69747, 69748>>,
   <<69759, 69761>>, <<69811, 69814>>, <<69817, 69818>>, <<69821, 69821>>,
   <<69826, 69826>>, <<69837, 69837>>, <<69888, 69890>>, <<69927, 69931>>,
   <<69933, 69940>>, <<70003, 70003>>, <<70016, 70017>>, <<70070, 70078>>,
   <<70089, 70092>>, <<70095, 70095>>, <<70191, 70193>>, <<70196, 70196>>,
   <<70198, 70199>>, <<70206, 70206>>, <<70367, 70367>>, <<70371, 70378>>,
   <<70400, 70401>>, <<70459, 70460>>, <<70464, 70464>>, <<70502, 70508>>,
   <<70512, 70516>>, <<70712, 70719>>, <<70722, 70724>>, <<70726, 70726>>,
   <<70750, 70750>>, <<70835, 70840>>, <<70842, 70842>>, <<70847, 70848>>,
   <<70850, 70851>>, <<71090, 71093>>, <<71100, 71101>>, <<71103, 71104>>,
   <<71132, 71133>>, <<71219, 71226>>, <<71229, 71229>>, <<71231, 71232>>,
   <<71339, 71339>>, <<71341, 71341>>, <<71344, 71349>>, <<71351, 71351>>,
   <<71453, 71455>>, <<71458, 71461>>, <<71463, 71467>>, <<71727, 71735>>,
   <<71737, 71738>>, <<71995, 71996>>, <<71998, 71998>>, <<72003, 72003>>,
   <<72148, 72151>>, <<72154, 72155>>, <<72160, 72160>>, <<72193, 72202>>,
   <<72243, 72248>>, <<72251, 72254>>, <<72263, 72263>>, <<72273, 72278>>,
   <<72281, 72283>>, <<72330, 72342>>, <<72344, 72345>>, <<72752, 72758>>,
   <<72760, 72765>>, <<72767, 72767>>, <<72850, 72871>>, <<72874, 72880>>,
   <<72882, 72883>>, <<72885, 72886>>, <<73009, 73014>>, <<73018, 73018>>,
   <<73020, 73021>>, <<73023, 73029>>, <<73031, 73031>>, <<73104, 73105>>,
   <<73109, 73109>>, <<73111, 73111>>, <<73459, 73460>>, <<78896, 78904>>,
   <<92912, 92916>>, <<92976, 92982>>, <<92992, 92995>>, <<94031, 94031>>,
   <<94095, 94111>>, <<94176, 94177>>, <<94179, 94180>>, <<110576, 110579>>,
   <<110581, 110587>>, <<110589, 110590>>, <<113821, 113822>>,
   <<113824, 113827>>, <<118528, 118573>>, <<118576, 118598>>,
   <<119143, 119145>>, <<119155, 119170>>, <<119173, 119179>>,
   <<119210, 119213>>, <<119362, 119364>>, <<121344, 121398>>,
   <<121403, 121452>>, <<121461, 121461>>, <<121476, 121476>>,
   <<121499, 121503>>, <<121505, 121519>>, <<122880, 122886>>,
   <<122888, 122904>>, <<122907, 122913>>, <<122915, 122916>>,
   <<122918, 122922>>, <<123184, 123197>>, <<123566, 123566>>,
   <<123628, 123631>>, <<125136, 125142>>, <<125252, 125259>>,
   <<127995, 127999>>, <<917505, 917505>>, <<917536, 917631>>,
   <<917760, 917999>>}

Cased(c) == \E r \in CasedRanges : r[1] <= c /\ c <= r[2]
CaseIgnorable(c) == \E r \in CaseIgnorableRanges : r[1] <= c /\ c <= r[2]

LowerDelta(c) ==
  {r[4] : r \in {q \in LowerRanges :
                   q[1] <= c /\ c <= q[2] /\ (c - q[1]) % q[3] = 0}}

\* The lowercase of one character, a string of one or two characters: only
\* U+0130 (capital I with dot above) has a lowercase of two, i and U+0307.
LowerChar(c) ==
  IF c < 128 THEN (IF 65 <= c /\ c <= 90 THEN <<c + 32>> ELSE <<c>>)
  ELSE IF c = 304 THEN <<105, 775>>
  ELSE IF LowerDelta(c) = {} THEN <<c>>
  ELSE <<c + (CHOOSE d \in LowerDelta(c) : TRUE)>>

\* Capital sigma (U+03A3) at position i of s is final, and lowercased to
\* U+03C2 instead of U+03C3, when the nearest character before it that is
\* not case-ignorable is cased and the nearest such character after it, if
\* there is one, is not cased.
FinalSigma(s, i) ==
  LET before == {j \in 1..(i - 1) : ~CaseIgnorable(s[j])}
      after == {j \in (i + 1)..Len(s) : ~CaseIgnorable(s[j])}
  IN IF before = {} THEN FALSE
     ELSE IF ~Cased(s[CHOOSE j \in before : \A k \in before : k <= j]) THEN FALSE
     ELSE IF after = {} THEN TRUE
     ELSE ~Cased(s[CHOOSE j \in after : \A k \in after : j <= k])

\* str.lower(): the characters are lowercased left to right, capital sigma
\* by its context and every other character on its own.
RECURSIVE LowerFrom(_, _)
LowerFrom(s, i) ==
  IF i > Len(s) THEN <<>>
  ELSE (IF s[i] = 931 THEN (IF FinalSigma(s, i) THEN <<962>> ELSE <<963>>)
        ELSE LowerChar(s[i])) \o LowerFrom(s, i + 1)

lower(s) == LowerFrom(s, 1)

\* `needle in hay` for str: scan the start positions left to right.
RECURSIVE FindFrom(_, _, _)
FindFrom(needle, hay, start) ==
  IF start + Len(needle) - 1 > Len(hay) THEN FALSE
  ELSE IF SubSeq(hay, start, start + Len(needle) - 1) = needle THEN TRUE
  ELSE FindFrom(needle, hay, start + 1)

StrIn(needle, hay) == FindFrom(needle, hay, 1)

\* "Team Vacation", "Standup", "Anything"
TeamVacation == <<84, 101, 97, 109, 32, 86, 97, 99, 97, 116, 105, 111, 110>>
Standup == <<83, 116, 97, 110, 100, 117, 112>>
Anything == <<65, 110, 121, 116, 104, 105, 110, 103>>
\* "FERIAS" with E acute (U+00C9), and Greek "ODOS" (U+039F U+0394 U+039F
\* U+03A3), whose lowercase ends in the final sigma U+03C2
Ferias == <<70, 201, 82, 73, 65, 83>>
Odos == <<927, 916, 927, 931>>
\* The keywords "vacation", "Ferias" with e acute (U+00E9), and capital
\* sigma alone, whose lowercase is U+03C3
K_vacation == <<118, 97, 99, 97, 116, 105, 111, 110>>
K_Ferias == <<70, 233, 114, 105, 97, 115>>
K_Sigma == <<931>>

\* A keyword that YAML read as a value that is not a string (off -> False):
\* it has no method lower().  No code point is negative.
NotAString == <<-1>>

----------------------------------------------------------------------------
(* The out-of-office filter, main() lines 67-71 *)

Event(eventType, summary) == [eventType |-> eventType, summary |-> summary]

\* An untitled event: the service leaves the key "summary" out.
Untitled(eventType) == [eventType |-> eventType]

\* An event without the key "eventType".
Untyped(summary) == [summary |-> summary]

\* any(keyword.lower() in event["summary"].lower() for keyword in kws):
\* for each keyword in turn keyword.lower() is evaluated, then
\* event["summary"]; the first match ends the scan.
RECURSIVE AnyKeyword(_, _)
AnyKeyword(event, kws) ==
  IF kws = <<>> THEN Result("", FALSE)
  ELSE IF Head(kws) = NotAString THEN Result("AttributeError: lower", FALSE)
  ELSE IF "summary" \notin DOMAIN event THEN Result("KeyError: summary", FALSE)
  ELSE IF StrIn(lower(Head(kws)), lower(event.summary)) THEN Result("", TRUE)
  ELSE AnyKeyword(event, Tail(kws))

\* The condition of the list comprehension:
\* event["eventType"] == "outOfOffice" or any(...)
IsOoo(event, kws) ==
  IF "eventType" \notin DOMAIN event THEN Result("KeyError: eventType", FALSE)
  ELSE IF event.eventType = "outOfOffice" THEN Result("", TRUE)
  ELSE AnyKeyword(event, kws)

\* A filter that deletes from the list it is iterating over: the element
\* that follows a deleted one is skipped, hence kept without being tested.
RECURSIVE OooFilter_RemoveWhileIterating(_, _)
OooFilter_RemoveWhileIterating(events, kws) ==
  IF events = <<>> THEN Result("", <<>>)
  ELSE
    LET test == IsOoo(Head(events), kws)
        skip == IF test.value \/ Len(events) = 1 THEN 1 ELSE 2
        kept == IF test.value THEN <<Head(events)>>
                ELSE IF Len(events) = 1 THEN <<>> ELSE <<events[2]>>
        rest == OooFilter_RemoveWhileIterating(
                  SubSeq(events, skip + 1, Len(events)), kws)
    IN IF test.raised # "" THEN Result(test.raised, <<>>)
       ELSE IF rest.raised # "" THEN rest
       ELSE Result("", kept \o rest.value)

\* [event for event in events if <condition>]: the events are tested in
\* order; an exception raised by a test ends the comprehension.
RECURSIVE OooFilter(_, _)
OooFilter(events, kws) ==
  IF events = <<>> THEN Result("", <<>>)
  ELSE
    LET test == IsOoo(Head(events), kws)
        rest == OooFilter(Tail(events), kws)
    IN IF test.raised # "" THEN Result(test.raised, <<>>)
       ELSE IF rest.raised # "" THEN rest
       ELSE Result("", IF test.value THEN <<Head(events)>> \o rest.value
                       ELSE rest.value)

\* The body of the for loop after a query returned, lines 61-71, with the
\* zero-event skip dropped: every queried calendar gets an entry.
StoreEvents_NoSkip(report, cal, events, kws) ==
  LET filtered == OooFilter(events, kws)
  IN IF filtered.raised # "" THEN Result(filtered.raised, report)
     ELSE Result("", (cal :> filtered.value) @@ report)

\* ... or with the kept events stored last first.
StoreEvents_Reversed(report, cal, events, kws) ==
  LET filtered == OooFilter(events, kws)
      kept == filtered.value
  IN IF events = <<>> THEN Result("", report)
     ELSE IF filtered.raised # "" THEN Result(filtered.raised, report)
     ELSE Result("", (cal :> [n \in 1..Len(kept) |-> kept[Len(kept) + 1 - n]])
                       @@ report)

\* The body of the for loop after a query returned, lines 61-71:
\* `if not events: continue`, else ooo_events[calendar_id] = [...].
StoreEvents(report, cal, events, kws) ==
  IF events = <<>> THEN Result("", report)
  ELSE
    LET filtered == OooFilter(events, kws)
    IN IF filtered.raised # "" THEN Result(filtered.raised, report)
       ELSE Result("", (cal :> filtered.value) @@ report)

----------------------------------------------------------------------------
(* Credentials, lines 22-39 *)

\* What main() reads of a Credentials object: creds.valid, creds.expired,
\* creds.refresh_token ("" is a refresh token that is not set); token tells
\* the cached, the refreshed and the newly granted credential apart.
Credential(token, refresh_token, valid, expired) ==
  [token |-> token, refresh_token |-> refresh_token,
   valid |-> valid, expired |-> expired]

\* The credentials a token file can hold; a valid credential is not expired.
CachedCredentials ==
  {c \in {Credential("cached", r, v, e) :
              r \in {"", "rt-cached"}, v \in BOOLEAN, e \in BOOLEAN} :
     ~(c.valid /\ c.expired)}

\* The content of a token file from which no credential can be loaded: an
\* empty or truncated file, text that is not JSON, a directory.
Unreadable == [type |-> "unreadable"]

\* creds.to_json() and Credentials.from_authorized_user_file(...)
to_json(c) ==
  [type |-> "authorized_user", token |-> c.token,
   refresh_token |-> c.refresh_token, valid |-> c.valid, expired |-> c.expired]

from_authorized_user_file(json) ==
  Credential(json.token, json.refresh_token, json.valid, json.expired)

\* creds.refresh(Request()) on success: a new access token, same refresh token.
Refreshed(c) == Credential("refreshed", c.refresh_token, TRUE, FALSE)

\* The credential flow.run_local_server(port=0) returns.
Granted == Credential("granted", "rt-granted", TRUE, FALSE)

\* What Credentials.from_authorized_user_file raises on such a file.
TokenLoadErrors == {"ValueError: store/token.json"}

\* What lines 38-39 raise: open() when the file cannot be opened for
\* writing, which leaves it as it was; write() or to_json() after open()
\* truncated the file.
TokenOpenErrors == {"OSError: open store/token.json"}
TokenWriteErrors == {"OSError: write store/token.json"}

RefreshErrors == {"RefreshError"}
FlowErrors == {"AccessDeniedError"}

\* What InstalledAppFlow.from_client_secrets_file raises when
\* store/credentials.json cannot be read.
ClientSecretsErrors == {"FileNotFoundError: store/credentials.json"}

\* Line 29 with the test dropped: always log in again.
NeedsLogin_Always(c) == TRUE

\* Line 29: `not creds or not creds.valid`
NeedsLogin(c) == IF c = None THEN TRUE ELSE ~c.valid

\* Line 30 without the test of creds.expired.
CanRefresh_IgnoresExpired(c) == IF c = None THEN FALSE ELSE c.refresh_token # ""

\* Line 30: `creds and creds.expired and creds.refresh_token`
CanRefresh(c) ==
  IF c = None THEN FALSE ELSE c.expired /\ c.refresh_token # ""

\* The token file exists and a credential can be loaded from it.
HoldsCredential(file) == IF file = <<>> THEN FALSE ELSE file[1] # Unreadable

\* Lines 26-27: load the cached credential when the token file exists.
LoadToken ==
  /\ pc = "load"
  /\ IF tokenFile = <<>> THEN TRUE ELSE HoldsCredential(tokenFile)
  /\ creds' = IF tokenFile # <<>> THEN from_authorized_user_file(tokenFile[1])
              ELSE None
  /\ pc' = "check"
  /\ UNCHANGED <<tokenFile, refreshCalls, flowCalls, tokenWrites, authError, uncaught>>
  /\ UNCHANGED <<settingsVars, fetchVars, outVars, tokenFile0, filterVars>>

\* Lines 26-27: the token file exists and from_authorized_user_file raises
\* on it; nothing in main() catches the exception.
LoadTokenFails ==
  /\ pc = "load"
  /\ IF tokenFile = <<>> THEN FALSE ELSE ~HoldsCredential(tokenFile)
  /\ \E e \in TokenLoadErrors : uncaught' = e
  /\ pc' = "raise"
  /\ UNCHANGED <<authVars, settingsVars, fetchVars, outVars, tokenFile0, filterVars>>

\* Line 29 false: the cached credential is used as it is.
UseCached ==
  /\ pc = "check"
  /\ ~NeedsLogin(creds)
  /\ pc' = "build"
  /\ UNCHANGED <<authVars, uncaught>>
  /\ UNCHANGED <<settingsVars, fetchVars, outVars, tokenFile0, filterVars>>

\* Line 31: creds.refresh(Request()) returns; creds is refreshed in place.
RefreshOk ==
  /\ pc = "check"
  /\ NeedsLogin(creds)
  /\ CanRefresh(creds)
  /\ refreshCalls' = refreshCalls + 1
  /\ creds' = Refreshed(creds)
  /\ pc' = "save"
  /\ UNCHANGED <<tokenFile, flowCalls, tokenWrites, authError, uncaught>>
  /\ UNCHANGED <<settingsVars, fetchVars, outVars, tokenFile0, filterVars>>

\* The refresh failure caught and ignored: the run goes on to save creds.
RefreshFails_Swallowed ==
  /\ pc = "check"
  /\ NeedsLogin(creds)
  /\ CanRefresh(creds)
  /\ refreshCalls' = refreshCalls + 1
  /\ \E e \in RefreshErrors : authError' = e
  /\ pc' = "save"
  /\ UNCHANGED <<tokenFile, creds, flowCalls, tokenWrites, uncaught>>
  /\ UNCHANGED <<settingsVars, fetchVars, outVars, tokenFile0, filterVars>>

\* Line 31: creds.refresh(Request()) raises; nothing in main() catches it.
RefreshFails ==
  /\ pc = "check"
  /\ NeedsLogin(creds)
  /\ CanRefresh(creds)
  /\ refreshCalls' = refreshCalls + 1
  /\ \E e \in RefreshErrors : authError' = e /\ uncaught' = e
  /\ pc' = "raise"
  /\ UNCHANGED <<tokenFile, creds, flowCalls, tokenWrites>>
  /\ UNCHANGED <<settingsVars, fetchVars, outVars, tokenFile0, filterVars>>

\* Lines 33-35: InstalledAppFlow.from_client_secrets_file raises, the file
\* store/credentials.json being unreadable; run_local_server is not called
\* and nothing in main() catches the exception.
ClientSecretsFails ==
  /\ pc = "check"
  /\ NeedsLogin(creds)
  /\ ~CanRefresh(creds)
  /\ \E e \in ClientSecretsErrors : authError' = e /\ uncaught' = e
  /\ pc' = "raise"
  /\ UNCHANGED <<tokenFile, creds, refreshCalls, flowCalls, tokenWrites>>
  /\ UNCHANGED <<settingsVars, fetchVars, outVars, tokenFile0, filterVars>>

\* Lines 33-36: the flow is built and run_local_server returns a new
\* credential.
RunFlowOk ==
  /\ pc = "check"
  /\ NeedsLogin(creds)
  /\ ~CanRefresh(creds)
  /\ flowCalls' = flowCalls + 1
  /\ creds' = Granted
  /\ pc' = "save"
  /\ UNCHANGED <<tokenFile, refreshCalls, tokenWrites, authError, uncaught>>
  /\ UNCHANGED <<settingsVars, fetchVars, outVars, tokenFile0, filterVars>>

\* Lines 33-36: the flow is built and run_local_server raises; nothing in
\* main() catches it.
RunFlowFails ==
  /\ pc = "check"
  /\ NeedsLogin(creds)
  /\ ~CanRefresh(creds)
  /\ flowCalls' = flowCalls + 1
  /\ \E e \in FlowErrors : authError' = e /\ uncaught' = e
  /\ pc' = "raise"
  /\ UNCHANGED <<tokenFile, creds, refreshCalls, tokenWrites>>
  /\ UNCHANGED <<settingsVars, fetchVars, outVars, tokenFile0, filterVars>>

\* The save skipped: the run goes on with the credential in memory only.
SaveToken_Skipped ==
  /\ pc = "save"
  /\ pc' = "build"
  /\ UNCHANGED <<authVars, uncaught>>
  /\ UNCHANGED <<settingsVars, fetchVars, outVars, tokenFile0, filterVars>>

\* Lines 38-39: overwrite the token file with creds.to_json().
SaveToken ==
  /\ pc = "save"
  /\ tokenFile' = <<to_json(creds)>>
  /\ tokenWrites' = tokenWrites + 1
  /\ pc' = "build"
  /\ UNCHANGED <<creds, refreshCalls, flowCalls, authError, uncaught>>
  /\ UNCHANGED <<settingsVars, fetchVars, outVars, tokenFile0, filterVars>>

\* Line 38: open("store/token.json", "w") raises; the file is as it was and
\* nothing in main() catches the exception.
SaveTokenOpenFails ==
  /\ pc = "save"
  /\ \E e \in TokenOpenErrors : uncaught' = e
  /\ pc' = "raise"
  /\ UNCHANGED <<authVars, settingsVars, fetchVars, outVars, tokenFile0, filterVars>>

\* Lines 38-39: open() returned, which empties the file, and the write
\* raises; nothing in main() catches the exception.
SaveTokenWriteFails ==
  /\ pc = "save"
  /\ tokenFile' = <<Unreadable>>
  /\ tokenWrites' = tokenWrites + 1
  /\ \E e \in TokenWriteErrors : uncaught' = e
  /\ pc' = "raise"
  /\ UNCHANGED <<creds, refreshCalls, flowCalls, authError>>
  /\ UNCHANGED <<settingsVars, fetchVars, outVars, tokenFile0, filterVars>>

----------------------------------------------------------------------------
(* Fetching and reporting, lines 41-81 and 84-96 *)

\* What one events().list(...).execute() call did: the items it returned,
\* or the exception it raised (error = "" when it returned).
QueryResult(cal, items, err) == [calendarId |-> cal, items |-> items, error |-> err]

\* A line of standard output: print(f"{prefix}{detail}") or print(report).
Line(prefix, detail, report) == [prefix |-> prefix, detail |-> detail, report |-> report]

\* Lines 91-92: print_report(calendars) prints the mapping.
print_report(out, calendars) == Append(out, Line("", "", calendars))

CalendarIds == {"primary", "team@example.com"}

\* What execute() raises: HttpError, which line 80 catches, or an exception
\* of another class (a connection failure), which it does not.
HttpErrors == {"HttpError 403 Forbidden", "HttpError 404 Not Found"}
OtherErrors == {"ConnectionError: no route"}

\* What settings() raises when settings.yml cannot be read.
SettingsErrors == {"FileNotFoundError: settings.yml"}

\* What build("calendar", "v3", credentials=creds) raises; no HttpError.
BuildErrors == {"MutualTLSChannelError"}

\* Events and keyword lists of the whole-run model.
ReportEvents ==
  {Event("outOfOffice", Anything), Event("default", TeamVacation),
   Untitled("default")}
ReportKeywords == {<<>>, <<K_vacation>>, <<K_Ferias>>, <<NotAString>>}

\* Events and keywords of the filter alone.
FilterEvents ==
  {Event("default", TeamVacation), Event("default", Standup),
   Event("outOfOffice", Anything), Event("default", Ferias),
   Event("default", Odos), Untitled("default"), Untyped(Standup)}
Keywords == {K_vacation, K_Ferias, K_Sigma, NotAString}

\* Number of queries made so far; the loop variable is calendar_id[Queried + 1].
Queried == Len(returned)

\* Number of events the queries made so far returned; the service returns at
\* most MaxReturned events in one run.
RECURSIVE CountItems(_)
CountItems(results) ==
  IF results = <<>> THEN 0
  ELSE Len(Head(results).items) + CountItems(Tail(results))

Fetched == CountItems(returned)

\* Lines 42-45: ooo_events = {}, the service is built, and settings() reads
\* settings.yml for the list the loop runs over.
BuildService ==
  /\ pc = "build"
  /\ ooo_events' = <<>>
  /\ pc' = "loop"
  /\ UNCHANGED <<authVars, uncaught, settingsVars, returned, error, outVars,
                 tokenFile0, filterVars>>

\* Lines 42-43: ooo_events = {}, then build(...) raises; the exception is no
\* HttpError and leaves main().
BuildFails ==
  /\ pc = "build"
  /\ ooo_events' = <<>>
  /\ \E e \in BuildErrors : uncaught' = e
  /\ pc' = "raise"
  /\ UNCHANGED <<authVars, settingsVars, returned, error, outVars,
                 tokenFile0, filterVars>>

\* Lines 45 and 84-88: settings() raises, settings.yml being unreadable; the
\* exception is no HttpError and leaves main().
SettingsFails ==
  /\ pc = "build"
  /\ ooo_events' = <<>>
  /\ \E e \in SettingsErrors : uncaught' = e
  /\ pc' = "raise"
  /\ UNCHANGED <<authVars, settingsVars, returned, error, outVars,
                 tokenFile0, filterVars>>

\* Lines 45-71, one iteration whose query returns and whose filter raises
\* nothing: the items are filtered into ooo_events unless there are none.
QueryOk ==
  /\ pc = "loop"
  /\ Queried < Len(calendar_id)
  /\ \E items \in SeqsUpTo(ReportEvents, MaxReturned - Fetched) :
       LET stored == StoreEvents(ooo_events, calendar_id[Queried + 1], items, keywords)
       IN /\ stored.raised = ""
          /\ returned' = Append(returned, QueryResult(calendar_id[Queried + 1], items, ""))
          /\ ooo_events' = stored.value
  /\ UNCHANGED <<pc, error, authVars, uncaught, settingsVars, outVars,
                 tokenFile0, filterVars>>

\* Lines 45-71, one iteration whose query returns and whose filter raises
\* KeyError or AttributeError; the exception is no HttpError and leaves
\* main(), ooo_events[calendar_id] not having been assigned.
FilterRaises ==
  /\ pc = "loop"
  /\ Queried < Len(calendar_id)
  /\ \E items \in SeqsUpTo(ReportEvents, MaxReturned - Fetched) :
       LET stored == StoreEvents(ooo_events, calendar_id[Queried + 1], items, keywords)
       IN /\ stored.raised # ""
          /\ returned' = Append(returned, QueryResult(calendar_id[Queried + 1], items, ""))
          /\ uncaught' = stored.raised
  /\ pc' = "raise"
  /\ UNCHANGED <<ooo_events, error, authVars, settingsVars, outVars,
                 tokenFile0, filterVars>>

\* The failure recorded and the loop going on with the next calendar.
QueryFails_Continue ==
  /\ pc = "loop"
  /\ Queried < Len(calendar_id)
  /\ \E e \in HttpErrors :
       /\ returned' = Append(returned, QueryResult(calendar_id[Queried + 1], <<>>, e))
       /\ error' = e
  /\ UNCHANGED <<pc, ooo_events, authVars, uncaught, settingsVars, outVars,
                 tokenFile0, filterVars>>

\* Lines 49-60 and 80: execute() raises HttpError; control leaves the loop
\* for the except clause.
QueryFails ==
  /\ pc = "loop"
  /\ Queried < Len(calendar_id)
  /\ \E e \in HttpErrors :
       /\ returned' = Append(returned, QueryResult(calendar_id[Queried + 1], <<>>, e))
       /\ error' = e
  /\ pc' = "except"
  /\ UNCHANGED <<ooo_events, authVars, uncaught, settingsVars, outVars,
                 tokenFile0, filterVars>>

\* Lines 49-60: execute() raises an exception that is no HttpError; line 80
\* does not catch it and it leaves main().
QueryRaisesOther ==
  /\ pc = "loop"
  /\ Queried < Len(calendar_id)
  /\ \E e \in OtherErrors :
       /\ returned' = Append(returned, QueryResult(calendar_id[Queried + 1], <<>>, e))
       /\ uncaught' = e
  /\ pc' = "raise"
  /\ UNCHANGED <<ooo_events, error, authVars, settingsVars, outVars,
                 tokenFile0, filterVars>>

\* Line 73 and 95-96: the loop is over; print_report(ooo_events), main()
\* returns, the script ends and the interpreter exits with status 0.
PrintReport ==
  /\ pc = "loop"
  /\ Queried = Len(calendar_id)
  /\ stdout' = print_report(stdout, ooo_events)
  /\ exitStatus' = 0
  /\ pc' = "done"
  /\ UNCHANGED <<stderr, authVars, uncaught, settingsVars, fetchVars,
                 tokenFile0, filterVars>>

\* Lines 80-81 and 95-96: print(f"An error occurred: {error}"); main()
\* returns, the script ends and the interpreter exits with status 0.
HandleHttpError ==
  /\ pc = "except"
  /\ stdout' = Append(stdout, Line("An error occurred: ", error, <<>>))
  /\ exitStatus' = 0
  /\ pc' = "done"
  /\ UNCHANGED <<stderr, authVars, uncaught, settingsVars, fetchVars,
                 tokenFile0, filterVars>>

\* Lines 95-96: an exception left main(); the interpreter prints the
\* traceback to standard error and exits with status 1.
UncaughtException ==
  /\ pc = "raise"
  /\ stderr' = Append(stderr, [traceback |-> uncaught])
  /\ exitStatus' = 1
  /\ pc' = "done"
  /\ UNCHANGED <<stdout, authVars, uncaught, settingsVars, fetchVars,
                 tokenFile0, filterVars>>

----------------------------------------------------------------------------
(* One run of the script *)

Init ==
  /\ tokenFile \in {<<>>, <<Unreadable>>} \cup {<<to_json(c)>> : c \in CachedCredentials}
  /\ tokenFile0 = tokenFile
  /\ creds = None
  /\ pc = "load"
  /\ refreshCalls = 0
  /\ flowCalls = 0
  /\ tokenWrites = 0
  /\ authError = ""
  /\ uncaught = ""
  /\ calendar_id \in SeqsUpTo(CalendarIds, MaxCalendars)
  /\ keywords \in ReportKeywords
  /\ returned = <<>>
  /\ ooo_events = <<>>
  /\ error = ""
  /\ stdout = <<>>
  /\ stderr = <<>>
  /\ exitStatus = Running
  /\ fEvents = <<>>
  /\ fOnce = Result("", <<>>)
  /\ fTwice = Result("", <<>>)

Next ==
  \/ LoadToken
  \/ LoadTokenFails
  \/ UseCached
  \/ RefreshOk
  \/ RefreshFails
  \/ ClientSecretsFails
  \/ RunFlowOk
  \/ RunFlowFails
  \/ SaveToken
  \/ SaveTokenOpenFails
  \/ SaveTokenWriteFails
  \/ BuildService
  \/ BuildFails
  \/ SettingsFails
  \/ QueryOk
  \/ FilterRaises
  \/ QueryFails
  \/ QueryRaisesOther
  \/ PrintReport
  \/ HandleHttpError
  \/ UncaughtException

Spec == Init /\ [][Next]_vars

----------------------------------------------------------------------------
(* Properties of a run: the credential lifecycle *)

\* The token file the run started with and the credential loaded from it.
HadToken == tokenFile0 # <<>>
HadCredential == HoldsCredential(tokenFile0)
Loaded == tokenFile0[1]
AuthDecided == pc \notin {"load", "check"}

\* Refresh or flow returned and lines 38-39 are behind: they wrote the file
\* or they raised.
PastSave == authError = "" /\ pc \notin {"load", "check", "save"}
SaveFailed == uncaught \in TokenOpenErrors \cup TokenWriteErrors

CachedValid == IF HadCredential THEN Loaded.valid ELSE FALSE
CachedRefreshable ==
  IF HadCredential
  THEN ~Loaded.valid /\ Loaded.expired /\ Loaded.refresh_token # ""
  ELSE FALSE
MustLogIn ==
  IF ~HadToken THEN TRUE
  ELSE IF HadCredential
  THEN ~Loaded.valid /\ ~(Loaded.expired /\ Loaded.refresh_token # "")
  ELSE FALSE

\* C1: when the token file exists and the credential loaded from it is
\* valid, the run makes no refresh call, runs no interactive flow and never
\* writes the token file.
C1_ValidTokenUntouched ==
  CachedValid =>
    /\ refreshCalls = 0
    /\ flowCalls = 0
    /\ tokenWrites = 0
    /\ tokenFile = tokenFile0
    /\ authError = ""

\* A run with a valid cached token that queried a calendar and exited.
C1_Witness ==
  /\ CachedValid
  /\ pc = "done"
  /\ Queried > 0
  /\ exitStatus = 0

\* C2 as stated: when the loaded credential is invalid, expired and has a
\* refresh token, exactly one refresh call is made, the interactive flow does
\* not run, and after a successful refresh the token file is overwritten
\* with the refreshed credential, once, before any calendar is queried.
C2_RefreshedTokenOverwritten ==
  CachedRefreshable =>
    /\ flowCalls = 0
    /\ refreshCalls = (IF AuthDecided THEN 1 ELSE 0)
    /\ (Queried > 0 \/ PastSave) =>
         /\ authError = ""
         /\ tokenWrites = 1
         /\ tokenFile =
              <<[type |-> "authorized_user", token |-> "refreshed",
                 refresh_token |-> Loaded.refresh_token,
                 valid |-> TRUE, expired |-> FALSE]>>
    /\ ~PastSave => Queried = 0 /\ tokenFile = tokenFile0

\* C2 amended: in the same runs exactly one refresh call is made and the
\* interactive flow does not run; after a successful refresh the token file
\* is overwritten with the refreshed credential, once, before any calendar
\* is queried, unless opening or writing the file raises: then the file is
\* as it was or is left truncated, no calendar is queried, nothing is printed
\* and the run ends with exit status 1.
C2_RefreshedTokenOverwrittenUnlessWriteFails ==
  CachedRefreshable =>
    /\ flowCalls = 0
    /\ refreshCalls = (IF AuthDecided THEN 1 ELSE 0)
    /\ (PastSave /\ ~SaveFailed) =>
         /\ tokenWrites = 1
         /\ tokenFile =
              <<[type |-> "authorized_user", token |-> "refreshed",
                 refresh_token |-> Loaded.refresh_token,
                 valid |-> TRUE, expired |-> FALSE]>>
    /\ Queried > 0 => (PastSave /\ ~SaveFailed)
    /\ SaveFailed =>
         /\ refreshCalls = 1
         /\ tokenFile \in {tokenFile0, <<Unreadable>>}
         /\ Queried = 0
         /\ stdout = <<>>
         /\ pc \in {"raise", "done"}
         /\ pc = "done" => exitStatus = 1
    /\ ~PastSave => Queried = 0 /\ tokenFile = tokenFile0

\* A run that refreshed an expired token, saved it and queried a calendar.
C2_Witness ==
  /\ CachedRefreshable
  /\ refreshCalls = 1
  /\ tokenWrites = 1
  /\ tokenFile # tokenFile0
  /\ Queried > 0

\* C3 as stated: when no token file exists, or the loaded credential is
\* invalid but not both expired and refreshable, the interactive flow runs
\* exactly once, no refresh call is made, and the credential the flow
\* returns is written to the token file.
C3_FlowRunsExactlyOnce ==
  MustLogIn =>
    /\ refreshCalls = 0
    /\ flowCalls = (IF AuthDecided THEN 1 ELSE 0)
    /\ PastSave =>
         /\ tokenWrites = 1
         /\ tokenFile = <<to_json(Granted)>>

\* C3 amended: in the same runs no refresh call is made.  When the client
\* secrets file store/credentials.json can be read the interactive flow runs
\* exactly once, and the credential it returns is written to the token file
\* before any calendar is queried, unless opening or writing the token file
\* raises: then the file is as it was or is left truncated, no calendar is
\* queried and the run ends with exit status 1.  When the client secrets
\* file cannot be read the flow does not run, the token file is not written,
\* no calendar is queried and the run ends with exit status 1.
C3_FlowRunsOnceUnlessFilesFail ==
  MustLogIn =>
    /\ refreshCalls = 0
    /\ ~AuthDecided => flowCalls = 0
    /\ (AuthDecided /\ authError \notin ClientSecretsErrors) => flowCalls = 1
    /\ authError \in ClientSecretsErrors =>
         /\ flowCalls = 0
         /\ tokenWrites = 0
         /\ tokenFile = tokenFile0
         /\ Queried = 0
         /\ pc = "done" => exitStatus = 1
    /\ (PastSave /\ ~SaveFailed) =>
         /\ flowCalls = 1
         /\ creds.token = "granted"
         /\ tokenWrites = 1
         /\ tokenFile =
              <<[type |-> "authorized_user", token |-> "granted",
                 refresh_token |-> "rt-granted",
                 valid |-> TRUE, expired |-> FALSE]>>
    /\ Queried > 0 => (PastSave /\ ~SaveFailed)
    /\ SaveFailed =>
         /\ flowCalls = 1
         /\ tokenFile \in {tokenFile0, <<Unreadable>>}
         /\ Queried = 0
         /\ stdout = <<>>
         /\ pc \in {"raise", "done"}
         /\ pc = "done" => exitStatus = 1
    /\ ~PastSave => Queried = 0 /\ tokenFile = tokenFile0

\* A run that started without a token file, ran the flow and saved its result.
C3_Witness ==
  /\ ~HadToken
  /\ flowCalls = 1
  /\ tokenWrites = 1
  /\ tokenFile # <<>>
  /\ tokenFile # <<Unreadable>>
  /\ pc = "done"

\* C7: when the refresh call or the interactive flow fails, the token file
\* is not written, no calendar is queried, no report is printed, and the run
\* ends with a non-zero exit status after the error was reported.
C7_AuthFailureIsFatal ==
  authError # "" =>
    /\ pc \in {"raise", "done"}
    /\ uncaught = authError
    /\ tokenWrites = 0
    /\ tokenFile = tokenFile0
    /\ Queried = 0
    /\ stdout = <<>>
    /\ exitStatus # 0
    /\ pc = "done" =>
         /\ exitStatus \notin {Running, 0}
         /\ stderr = <<[traceback |-> authError]>>

\* A run whose refresh call failed and that has exited.
C7_Witness ==
  /\ authError = "RefreshError"
  /\ refreshCalls = 1
  /\ pc = "done"
  /\ exitStatus = 1

----------------------------------------------------------------------------
(* Properties of a run: fetching and reporting *)

\* The filter predicate as the specification words it: the event is of type
\* outOfOffice, or some keyword, lowercased, occurs in the lowercased
\* summary.  An event without summary contains no keyword.
Occurs(k, s) ==
  \E a \in 1..(Len(s) + 1) :
    /\ a + Len(k) - 1 <= Len(s)
    /\ \A j \in 1..Len(k) : s[a + j - 1] = k[j]

IsType(e, t) == IF "eventType" \in DOMAIN e THEN e.eventType = t ELSE FALSE
SummaryHas(e, k) ==
  IF "summary" \in DOMAIN e /\ k # NotAString
  THEN Occurs(lower(k), lower(e.summary)) ELSE FALSE

Qualifies(e, kws) ==
  \/ IsType(e, "outOfOffice")
  \/ \E n \in 1..Len(kws) : SummaryHas(e, kws[n])

\* a is b with some elements left out, the rest in b's order.
IsSubsequence(a, b) ==
  \E f \in [1..Len(a) -> 1..Len(b)] :
    /\ \A m, n \in 1..Len(a) : m < n => f[m] < f[n]
    /\ \A n \in 1..Len(a) : a[n] = b[f[n]]

\* The queries that returned at least one event.
NonEmptyQueries == {k \in 1..Queried : returned[k].error = "" /\ returned[k].items # <<>>}
FailedQueries == {k \in 1..Queried : returned[k].error # ""}
ReportLines == {n \in 1..Len(stdout) : stdout[n].prefix = ""}

KeysHaveEvents(report) ==
  \A c \in DOMAIN report : \E k \in NonEmptyQueries : returned[k].calendarId = c

\* C5: in the fetch loop and in the report given to print_report, a calendar
\* is a key of the report only if a query for it returned at least one event
\* in this run; a calendar whose queries returned no event is not a key.
C5_KeysOnlyForCalendarsWithEvents ==
  /\ KeysHaveEvents(ooo_events)
  /\ \A n \in ReportLines : KeysHaveEvents(stdout[n].report)
  /\ \A k \in 1..Queried :
       (\A j \in 1..Queried :
          returned[j].calendarId = returned[k].calendarId => returned[j].items = <<>>)
       => returned[k].calendarId \notin DOMAIN ooo_events

\* A printed report with an entry for one calendar and none for another
\* whose query returned zero events.
C5_Witness ==
  /\ pc = "done"
  /\ ReportLines # {}
  /\ DOMAIN ooo_events # {}
  /\ \E k \in 1..Queried :
       /\ returned[k].items = <<>>
       /\ returned[k].calendarId \notin DOMAIN ooo_events

\* C6: calendars are queried in the configured order; after a query raised
\* an API error no later calendar is queried, print_report is never called,
\* and a message holding the error detail is printed: by line 81 for an
\* HttpError, by the interpreter's traceback for any other exception.
C6_ApiErrorAbortsRun ==
  /\ Queried <= Len(calendar_id)
  /\ \A k \in 1..Queried : returned[k].calendarId = calendar_id[k]
  /\ \A k \in FailedQueries : k = Queried
  /\ FailedQueries # {} =>
       /\ ReportLines = {}
       /\ pc \in {"except", "raise", "done"}
       /\ (pc = "done" /\ returned[Queried].error \in HttpErrors) =>
            stdout = <<[prefix |-> "An error occurred: ",
                        detail |-> returned[Queried].error, report |-> <<>>]>>
       /\ (pc = "done" /\ returned[Queried].error \notin HttpErrors) =>
            stderr = <<[traceback |-> returned[Queried].error]>>

\* The first of two calendars failed after which the run ended: the second
\* was never queried and only the error message was printed.
C6_Witness ==
  /\ pc = "done"
  /\ Len(calendar_id) = 2
  /\ Queried = 1
  /\ returned[1].error = "HttpError 403 Forbidden"
  /\ Len(stdout) = 1

\* The exceptions that end a run before its first calendar query.
StartupErrors ==
  TokenLoadErrors \cup RefreshErrors \cup ClientSecretsErrors \cup FlowErrors
    \cup TokenOpenErrors \cup TokenWriteErrors \cup BuildErrors \cup SettingsErrors

\* C8: of the runs that got as far as the fetch loop, one whose queries all
\* succeed prints the report exactly once and exits with status 0; one in
\* which a query raises an API error prints a message and ends with a
\* non-zero exit status.
C8_ReportAndExitStatus ==
  (pc = "done" /\ uncaught \notin StartupErrors) =>
    /\ (Queried = Len(calendar_id) /\ FailedQueries = {}) =>
         (Cardinality(ReportLines) = 1 /\ exitStatus = 0)
    /\ FailedQueries # {} =>
         (Len(stdout) + Len(stderr) >= 1 /\ exitStatus # 0)

\* The last query for calendar c that returned events.
LastNonEmpty(c) ==
  CHOOSE k \in NonEmptyQueries :
    /\ returned[k].calendarId = c
    /\ \A j \in NonEmptyQueries : returned[j].calendarId = c => j <= k

\* C10: on a run without API error the keys of the printed report are
\* exactly the configured calendars whose query returned at least one event;
\* a calendar none of whose returned events qualifies is a key mapped to the
\* empty list; every list is an order-preserving subsequence of the events
\* returned for its calendar.
C10_ReportKeysAndLists ==
  \A n \in ReportLines :
    LET report == stdout[n].report IN
    /\ FailedQueries = {}
    /\ Queried = Len(calendar_id)
    /\ DOMAIN report =
         {calendar_id[k] : k \in {j \in 1..Len(calendar_id) : returned[j].items # <<>>}}
    /\ \A c \in DOMAIN report :
         /\ IsSubsequence(report[c], returned[LastNonEmpty(c)].items)
         /\ (\A m \in 1..Len(returned[LastNonEmpty(c)].items) :
               ~Qualifies(returned[LastNonEmpty(c)].items[m], keywords))
            => report[c] = <<>>

\* A printed report, made with a keyword, in which one calendar maps to the
\* empty list, the summary of its event not holding the keyword, and another
\* to a proper, non-empty part of its events.
C10_Witness ==
  /\ pc = "done"
  /\ ReportLines # {}
  /\ keywords # <<>>
  /\ \E c \in DOMAIN ooo_events : ooo_events[c] = <<>>
  /\ \E k \in NonEmptyQueries :
       /\ ooo_events[returned[k].calendarId] # <<>>
       /\ ooo_events[returned[k].calendarId] # returned[k].items
       /\ LastNonEmpty(returned[k].calendarId) = k

----------------------------------------------------------------------------
(* The filter alone, on richer inputs: lines 67-71 applied to an event     *)
(* list, and then, when it raised nothing, to its own output.              *)

FilterOnce ==
  /\ pc = "filter"
  /\ fOnce' = OooFilter(fEvents, keywords)
  /\ pc' = "filtered"
  /\ UNCHANGED <<fEvents, fTwice, authVars, uncaught, settingsVars, fetchVars,
                 outVars, tokenFile0>>

FilterTwice ==
  /\ pc = "filtered"
  /\ fOnce.raised = ""
  /\ fTwice' = OooFilter(fOnce.value, keywords)
  /\ pc' = "refiltered"
  /\ UNCHANGED <<fEvents, fOnce, authVars, uncaught, settingsVars, fetchVars,
                 outVars, tokenFile0>>

InitFilter ==
  /\ pc = "filter"
  /\ keywords \in SeqsUpTo(Keywords, MaxKeywords)
  /\ fEvents \in SeqsUpTo(FilterEvents, MaxFilterLen)
  /\ fOnce = Result("", <<>>)
  /\ fTwice = Result("", <<>>)
  /\ tokenFile = <<>>
  /\ tokenFile0 = <<>>
  /\ creds = None
  /\ refreshCalls = 0
  /\ flowCalls = 0
  /\ tokenWrites = 0
  /\ authError = ""
  /\ uncaught = ""
  /\ calendar_id = <<>>
  /\ returned = <<>>
  /\ ooo_events = <<>>
  /\ error = ""
  /\ stdout = <<>>
  /\ stderr = <<>>
  /\ exitStatus = Running

NextFilter ==
  \/ FilterOnce
  \/ FilterTwice

SpecFilter == InitFilter /\ [][NextFilter]_vars

----------------------------------------------------------------------------
(* Properties of the filter *)

\* The positions of fEvents whose event qualifies.
KeptPositions == {n \in 1..Len(fEvents) : Qualifies(fEvents[n], keywords)}
Has(list, e) == \E n \in 1..Len(list) : list[n] = e

\* C4: an event is kept if and only if its eventType is "outOfOffice" or its
\* lowercased summary contains a lowercased keyword: the filter yields the
\* qualifying events, each once, in their order.  With keywords
\* {"vacation"}, ("Team Vacation", default) is kept and ("Standup", default)
\* is dropped; an outOfOffice event is kept whatever the keywords, also
\* with none.
C4_KeepsExactlyQualifyingEvents ==
  pc \in {"filtered", "refiltered"} =>
    /\ fOnce.raised = ""
    /\ Len(fOnce.value) = Cardinality(KeptPositions)
    /\ \A n \in KeptPositions :
         fOnce.value[Cardinality({m \in KeptPositions : m <= n})] = fEvents[n]
    /\ keywords = <<K_vacation>> =>
         /\ Has(fEvents, Event("default", TeamVacation))
              => Has(fOnce.value, Event("default", TeamVacation))
         /\ ~Has(fOnce.value, Event("default", Standup))
    /\ \A n \in 1..Len(fEvents) :
         IsType(fEvents[n], "outOfOffice") => Has(fOnce.value, fEvents[n])

\* C9: filtering is idempotent: whenever the filter yields a list, the filter
\* applied to that list yields the same list, same events in the same order.
C9_FilterIdempotent ==
  pc = "refiltered" => (fTwice.raised = "" /\ fTwice.value = fOnce.value)

\* A list from which the filter removed some events and kept others,
\* filtered a second time.
C9_Witness ==
  /\ pc = "refiltered"
  /\ fOnce.value # <<>>
  /\ Len(fOnce.value) < Len(fEvents)
  /\ fTwice = fOnce

====
